---- MODULE Spec2Model ----
(***************************************************************************)
(* A model of logestic (src/src/index.ts): the Logestic facade, its        *)
(* destination writer, the three lifecycle hooks installed by format(),    *)
(* and the helpers buildAttrs, colourLogType and removeAnsi.               *)
(*                                                                         *)
(* Strings are sequences of one-character strings, so that the regular     *)
(* expression of removeAnsi, trimStart and Number() are computed character *)
(* by character.  ESC stands for U+001B and NL for the line feed.          *)
(***************************************************************************)
EXTENDS Integers, Sequences, FiniteSets, Bags, TLC

(***************************************************************************)
(* Bounds of the model.                                                    *)
(***************************************************************************)
MaxReq == 2
MaxCalls == 2
MaxAttrs == 3

Requests == 1..MaxReq

(***************************************************************************)
(* JavaScript values.  One record shape for all of them, so that any two   *)
(* values can be compared.                                                 *)
(***************************************************************************)
JsVal(t, n, s) == [type |-> t, n |-> n, s |-> s]
Undefined == JsVal("undefined", 0, <<>>)
Null == JsVal("null", 0, <<>>)
NaN == JsVal("NaN", 0, <<>>)
Num(n) == JsVal("number", n, <<>>)
BigInt(n) == JsVal("bigint", n, <<>>)
Date(n) == JsVal("date", n, <<>>)
Str(s) == JsVal("string", 0, s)
Bool(b) == JsVal("boolean", IF b THEN 1 ELSE 0, <<>>)

\* JavaScript truthiness: undefined, null, NaN, 0, 0n, "" and false are falsy.
Truthy(v) ==
    CASE v.type \in {"undefined", "null", "NaN"} -> FALSE
      [] v.type \in {"number", "bigint", "boolean"} -> v.n # 0
      [] v.type = "string" -> v.s # <<>>
      [] OTHER -> TRUE

\* a || b
Or(a, b) == IF Truthy(a) THEN a ELSE b

(***************************************************************************)
(* Characters and strings.                                                 *)
(***************************************************************************)
ESC == "ESC"
NL == "NL"
Digits == {"0", "1", "2", "3", "4", "5", "6", "7", "8", "9"}
WhiteSpace == {" ", NL}

DigitVal(c) ==
    CASE c = "0" -> 0 [] c = "1" -> 1 [] c = "2" -> 2 [] c = "3" -> 3
      [] c = "4" -> 4 [] c = "5" -> 5 [] c = "6" -> 6 [] c = "7" -> 7
      [] c = "8" -> 8 [] c = "9" -> 9

RECURSIVE trimStart(_)
trimStart(s) ==
    IF s # <<>> /\ Head(s) \in WhiteSpace THEN trimStart(Tail(s)) ELSE s

RECURSIVE trimEnd(_)
trimEnd(s) ==
    IF s # <<>> /\ s[Len(s)] \in WhiteSpace
    THEN trimEnd(SubSeq(s, 1, Len(s) - 1))
    ELSE s

RECURSIVE DecimalValue(_)
DecimalValue(s) ==
    IF s = <<>> THEN 0
    ELSE 10 * DecimalValue(SubSeq(s, 1, Len(s) - 1)) + DigitVal(s[Len(s)])

\* A Number() that, like parseInt, has no number for null.
ToNumberNullNaN(v) ==
    IF v.type = "null" THEN NaN
    ELSE LET t == trimEnd(trimStart(v.s))
         IN  IF t = <<>> THEN Num(0)
             ELSE IF \A i \in 1..Len(t) : t[i] \in Digits
                  THEN Num(DecimalValue(t))
                  ELSE NaN

\* Number(v) for the values a header lookup yields: null is 0, a string is
\* trimmed and then "" is 0, a run of decimal digits is its value, and any
\* other text is NaN.
ToNumber(v) ==
    IF v.type = "null" THEN Num(0)
    ELSE LET t == trimEnd(trimStart(v.s))
         IN  IF t = <<>> THEN Num(0)
             ELSE IF \A i \in 1..Len(t) : t[i] \in Digits
                  THEN Num(DecimalValue(t))
                  ELSE NaN

\* The end of the match of /\u001b\[\d*m/ that starts at position i of s, or
\* 0 when none starts there: ESC, "[", the longest run of digits, "m".
RECURSIVE SkipDigits(_, _)
SkipDigits(s, j) ==
    IF j <= Len(s) /\ s[j] \in Digits THEN SkipDigits(s, j + 1) ELSE j

MatchEnd(s, i) ==
    IF i + 1 <= Len(s) /\ s[i] = ESC /\ s[i + 1] = "["
    THEN LET j == SkipDigits(s, i + 2)
         IN  IF j <= Len(s) /\ s[j] = "m" THEN j ELSE 0
    ELSE 0

\* text.replace(/\u001b\[\d*m/g, "") from position i on: the scan goes from
\* the left, drops each match and goes on after it.
RECURSIVE ReplaceFrom(_, _)
ReplaceFrom(s, i) ==
    IF i > Len(s) THEN <<>>
    ELSE IF MatchEnd(s, i) # 0 THEN ReplaceFrom(s, MatchEnd(s, i) + 1)
         ELSE <<s[i]>> \o ReplaceFrom(s, i + 1)

\* (The string is bound to its value first, which spares the model checker
\* from working it out again at every character.)
removeAnsi(text) ==
    CHOOSE r \in {trimStart(ReplaceFrom(t, 1)) : t \in {text}} : TRUE


(***************************************************************************)
(* State.                                                                  *)
(***************************************************************************)
VARIABLES
    options,     \* the LogesticOptions handed to the constructor
    this,        \* the fields of the Logestic instance
    chalkLevel,  \* chalk's colour support level of the process, 0..3
    createPc,    \* position of the createFileIfNotExists(...).then(...) chain
    emptyWrite,  \* the Bun.write(dest, "") of createFileIfNotExists
    fs,          \* the log file: whether it exists, and the chunks it holds
    appends,     \* the texts of the fs.appendFile calls not yet completed, a bag
    lastLog,     \* the latest call of log: its argument and what it did
    lastCall,    \* the latest logging call: who logged which message, and
                 \* the bytes its write was handed
    stats,       \* counts of log calls, write calls, bytes, completed appends
    explicit,    \* counts of info/warn/debug/error calls and of their writes
    formatAttr,  \* the callbacks format() installed, if it was called
    store,       \* the Elysia store: logestic_timeStart, shared by all requests
    clock,       \* process.hrtime.bigint(), in nanoseconds
    req          \* the requests and what the hooks did for each

vars ==
    <<options, this, chalkLevel, createPc, emptyWrite, fs, appends, lastLog,
      lastCall, stats, explicit, formatAttr, store, clock, req>>

\* Nanoseconds that pass between two lifecycle events.
TickNs == 1500

(***************************************************************************)
(* types: Attribute, LogType, BunFile.                                     *)
(***************************************************************************)
Attribute ==
    {"ip", "method", "path", "body", "query", "time", "contentLength",
     "status", "referer", "userAgent", "duration"}

LogType == {"http", "info", "warn", "debug", "error"}

BunFile(kind, name) == [kind |-> kind, name |-> name]
BunStdout == BunFile("stdout", <<>>)
BunStderr == BunFile("stderr", <<>>)
LogFile == BunFile("file", <<"a", ".", "l", "o", "g">>)
NoDest == BunFile("undefined", <<>>)

(***************************************************************************)
(* chalk, as colourLogType uses it.  An instance is the pair of SGR codes  *)
(* it wraps a string in; at level 0 chalk adds nothing.  chalk.hex gives a *)
(* truecolor sequence at level 3, a 256-colour one at level 2 and a        *)
(* 16-colour one at level 1.                                               *)
(***************************************************************************)
ChalkInstance(open, close) == [open |-> open, close |-> close]

Red == Str(<<"#", "f", "f", "0", "0", "0", "0">>)

chalkHex(hex) ==
    ChalkInstance(
        CASE chalkLevel = 3 ->
               <<"3", "8", ";", "2", ";", "2", "5", "5", ";", "0", ";", "0">>
          [] chalkLevel = 2 -> <<"3", "8", ";", "5", ";", "1", "9", "6">>
          [] OTHER -> <<"9", "1">>,
        <<"3", "9">>)

chalkBg(digit) == ChalkInstance(<<"4", digit>>, <<"4", "9">>)

chalkApply(inst, s) ==
    IF chalkLevel = 0 THEN s
    ELSE <<ESC, "[">> \o inst.open \o <<"m">> \o s
           \o <<ESC, "[">> \o inst.close \o <<"m">>

TypeChars(type) ==
    CASE type = "http" -> <<"h", "t", "t", "p">>
      [] type = "info" -> <<"i", "n", "f", "o">>
      [] type = "warn" -> <<"w", "a", "r", "n">>
      [] type = "debug" -> <<"d", "e", "b", "u", "g">>
      [] type = "error" -> <<"e", "r", "r", "o", "r">>

UpperChar(c) ==
    CASE c = "h" -> "H" [] c = "t" -> "T" [] c = "p" -> "P" [] c = "i" -> "I"
      [] c = "n" -> "N" [] c = "f" -> "F" [] c = "o" -> "O" [] c = "w" -> "W"
      [] c = "a" -> "A" [] c = "r" -> "R" [] c = "d" -> "D" [] c = "e" -> "E"
      [] c = "b" -> "B" [] c = "u" -> "U" [] c = "g" -> "G" [] OTHER -> c

toUpperCase(s) == [i \in 1..Len(s) |-> UpperChar(s[i])]

colourLogType(type, colourDef) ==
    LET bgColour ==
            IF Truthy(colourDef[type]) THEN chalkHex(colourDef[type])
            ELSE CASE type = "http" -> chalkBg("4")
                   [] type = "info" -> chalkBg("2")
                   [] type = "warn" -> chalkBg("3")
                   [] type = "debug" -> chalkBg("6")
                   [] type = "error" -> chalkBg("1")
        withSpaces == <<" ">> \o toUpperCase(TypeChars(type)) \o <<" ">>
    IN  chalkApply(bgColour, withSpaces)

\* `${label} ${msg}`
Prefixed(type, msg) == colourLogType(type, this.logLevelColour) \o <<" ">> \o msg

(***************************************************************************)
(* The Elysia context of a request, as buildAttrs reads it.                *)
(***************************************************************************)
HeaderNames == {"x-forwarded-for", "content-length", "referer", "user-agent"}

Context(method, headers, path, status) ==
    [request |-> [method |-> method, headers |-> headers],
     path |-> path,
     body |-> Undefined,
     query |-> Undefined,
     set |-> [status |-> status]]

\* request.headers.get(name): null for a header that is not there.
HeadersGet(ctx, name) == ctx.request.headers[name]

NoHeaders == [h \in HeaderNames |-> Null]

\* elysia's StatusMap, for the names used here.
StatusMap(name) ==
    CASE name = Str(<<"O", "K">>) -> Num(200)
      [] name = Str(<<"G", "o", "n", "e">>) -> Num(410)
      [] OTHER -> Undefined

SetAttr(attrs, k, v) ==
    [x \in (DOMAIN attrs) \cup {k} |-> IF x = k THEN v ELSE attrs[x]]

\* The status case without its `if (!set.status) break;`.
StatusCaseUnguarded(attrs, ctx) ==
    SetAttr(attrs, "status",
            IF ctx.set.status.type = "number" THEN ctx.set.status
            ELSE StatusMap(ctx.set.status))

\* One pass of the switch in buildAttrs, for the key k.
StatusCase(attrs, ctx) ==
    IF ~Truthy(ctx.set.status) THEN attrs
    ELSE SetAttr(attrs, "status",
                 IF ctx.set.status.type = "number" THEN ctx.set.status
                 ELSE StatusMap(ctx.set.status))

ContentLengthCase(attrs, ctx) ==
    SetAttr(attrs, "contentLength", ToNumber(HeadersGet(ctx, "content-length")))

\* (now - timeStart) / 1000n, with now = process.hrtime.bigint()
DurationCase(attrs, timeStart) ==
    SetAttr(attrs, "duration", BigInt((clock - timeStart.n) \div 1000))

AttrCase(attrs, k, ctx, timeStart) ==
    CASE k = "ip" ->
           SetAttr(attrs, "ip",
                   Or(HeadersGet(ctx, "x-forwarded-for"),
                      Str(<<"<", "i", "p", "?", ">">>)))
      [] k = "method" -> SetAttr(attrs, "method", ctx.request.method)
      [] k = "path" -> SetAttr(attrs, "path", ctx.path)
      [] k = "body" -> SetAttr(attrs, "body", ctx.body)
      [] k = "query" -> SetAttr(attrs, "query", ctx.query)
      [] k = "time" -> SetAttr(attrs, "time", Date(clock))
      [] k = "contentLength" -> ContentLengthCase(attrs, ctx)
      [] k = "status" -> StatusCase(attrs, ctx)
      [] k = "referer" ->
           SetAttr(attrs, "referer",
                   Or(HeadersGet(ctx, "referer"),
                      Str(<<"<", "r", "e", "f", "e", "r", "e", "r", "?", ">">>)))
      [] k = "userAgent" ->
           SetAttr(attrs, "userAgent",
                   Or(HeadersGet(ctx, "user-agent"),
                      Str(<<"<", "u", "s", "e", "r", "-", "a", "g", "e", "n",
                            "t", "?", ">">>)))
      [] k = "duration" -> DurationCase(attrs, timeStart)
      [] OTHER -> attrs

\* for (const key of reqAttrs) { switch (key) ... }, from the i-th key on.
RECURSIVE BuildFrom(_, _, _, _, _)
BuildFrom(attrs, ctx, reqAttrs, i, timeStart) ==
    IF i > Len(reqAttrs) THEN attrs
    ELSE BuildFrom(AttrCase(attrs, reqAttrs[i], ctx, timeStart),
                   ctx, reqAttrs, i + 1, timeStart)

NoAttrs == [x \in {} |-> Undefined]

buildAttrs(ctx, reqAttrs, timeStart) ==
    BuildFrom(NoAttrs, ctx, reqAttrs, 1, timeStart)

(***************************************************************************)
(* The constructor and setDest.                                            *)
(***************************************************************************)
NoColours == [t \in LogType |-> Undefined]
RedColours == [t \in LogType |-> Red]

\* this.dest right after setDest returns: a standard stream is assigned at
\* once, a file only by the .then callback of createFileIfNotExists.
setDest(dest) == IF dest.kind \in {"stdout", "stderr"} THEN dest ELSE NoDest

constructor(opts) ==
    [requestedAttrs |-> <<>>,
     showLevel |-> Or(opts.showLevel, Bool(FALSE)),
     logLevelColour |-> opts.logLevelColour,
     httpLogging |-> Or(opts.httpLogging, Bool(TRUE)),
     explicitLogging |-> Or(opts.explicitLogging, Bool(TRUE)),
     dest |-> setDest(IF opts.dest = NoDest THEN BunStdout ELSE opts.dest)]

NoLog == [arg |-> <<>>, effect |-> "none", text |-> <<>>]
NoCall == [by |-> "none", msg |-> <<>>, dest |-> NoDest, bytes |-> 0]
NoHook == [calls |-> 0, ret |-> <<>>, destSet |-> FALSE, writes |-> 0]

NewRequest ==
    [phase |-> "new",
     ctx |-> Context(Undefined, NoHeaders, Undefined, Undefined),
     start |-> 0,
     extractedAt |-> 0,
     requested |-> <<>>,
     attrs |-> NoAttrs,
     onSuccess |-> NoHook,
     onFailure |-> NoHook]

\* The state once `new Logestic(opts)` has returned, in a process whose
\* chalk level is one of levels.
InitWith(optionSet, levels, existing) ==
    /\ options \in optionSet
    /\ this = constructor(options)
    /\ chalkLevel \in levels
    /\ createPc = IF options.dest.kind = "file" THEN "exists" ELSE "none"
    /\ emptyWrite = "none"
    /\ fs \in [exists : IF options.dest.kind = "file" THEN existing ELSE {FALSE},
               content : {<<>>}]
    /\ appends = EmptyBag
    /\ lastLog = NoLog
    /\ lastCall = NoCall
    /\ stats = [logCalls |-> 0, writes |-> 0, bytes |-> 0, appended |-> 0]
    /\ explicit = [calls |-> 0, writes |-> 0]
    /\ formatAttr = [installed |-> FALSE, onRequest |-> FALSE]
    /\ store = [logestic_timeStart |-> BigInt(0)]
    /\ clock = 0
    /\ req = [r \in Requests |-> NewRequest]

(***************************************************************************)
(* createFileIfNotExists(dest).then(file => this.dest = file)              *)
(***************************************************************************)
\* `await dest.exists()` resumes: a missing file gets Bun.write(dest, ""),
\* which is not awaited; the write has either happened by the time the call
\* returns or is still to happen.
createFileIfNotExists(done) ==
    /\ createPc = "exists"
    /\ createPc' = "then"
    /\ IF fs.exists
       THEN UNCHANGED <<emptyWrite, fs>>
       ELSE IF done
            THEN /\ emptyWrite' = "done"
                 /\ fs' = [exists |-> TRUE, content |-> <<>>]
            ELSE /\ emptyWrite' = "pending"
                 /\ UNCHANGED fs
    /\ UNCHANGED <<options, this, chalkLevel, appends, lastLog, lastCall,
                   stats,
                   explicit, formatAttr, store, clock, req>>

\* The pending Bun.write(dest, "") takes place: the file is empty.
BunWriteEmpty ==
    /\ emptyWrite = "pending"
    /\ emptyWrite' = "done"
    /\ fs' = [exists |-> TRUE, content |-> <<>>]
    /\ UNCHANGED <<options, this, chalkLevel, createPc, appends, lastLog, lastCall,
                   stats, explicit, formatAttr, store, clock, req>>

\* .then((file) => { this.dest = file; })
ThenSetDest ==
    /\ createPc = "then"
    /\ createPc' = "done"
    /\ this' = [this EXCEPT !.dest = options.dest]
    /\ UNCHANGED <<options, chalkLevel, emptyWrite, fs, appends, lastLog, lastCall,
                   stats, explicit, formatAttr, store, clock, req>>

(***************************************************************************)
(* log, and the completion of the fs.appendFile calls it issues.           *)
(***************************************************************************)
\* A log without its `if (!msg || msg === "") return;`.
LogEffectNoEmptyCheck(msg) ==
    IF this.dest = NoDest
    THEN [arg |-> msg, effect |-> "threw", text |-> <<>>]
    ELSE IF this.dest.name = <<>> \/ Len(this.dest.name) = 0
         THEN [arg |-> msg, effect |-> "stream", text |-> msg \o <<NL>>]
         ELSE [arg |-> msg, effect |-> "append",
               text |-> removeAnsi(msg \o <<NL>>)]

\* What log(msg) does in the current state.
LogEffect(msg) ==
    IF ~Truthy(Str(msg)) \/ msg = <<>>
    THEN [arg |-> msg, effect |-> "ignored", text |-> <<>>]
    ELSE IF this.dest = NoDest
         THEN \* this.dest is undefined: reading .name throws a TypeError
              [arg |-> msg, effect |-> "threw", text |-> <<>>]
         ELSE IF this.dest.name = <<>> \/ Len(this.dest.name) = 0
              THEN [arg |-> msg, effect |-> "stream", text |-> msg \o <<NL>>]
              ELSE [arg |-> msg, effect |-> "append",
                    text |-> removeAnsi(msg \o <<NL>>)]

log(msg) ==
    \E e \in {LogEffect(m) : m \in {msg}} :
    LET written == e.effect \in {"stream", "append"}
    IN  /\ lastLog' = e
        /\ stats' = [stats EXCEPT
                       !.logCalls = @ + (IF e.arg = <<>> THEN 0 ELSE 1),
                       !.writes = @ + (IF written THEN 1 ELSE 0),
                       !.bytes = @ + (IF written THEN Len(e.text) ELSE 0)]
        /\ appends' = IF e.effect = "append"
                      THEN appends (+) SetToBag({e.text})
                      ELSE appends

\* One fs.appendFile call completes; the calls complete in any order.
AppendFileDone(text) ==
    /\ BagIn(text, appends)
    /\ fs' = [exists |-> TRUE, content |-> Append(fs.content, text)]
    /\ appends' = appends (-) SetToBag({text})
    /\ stats' = [stats EXCEPT !.appended = @ + 1]
    /\ UNCHANGED <<options, this, chalkLevel, createPc, emptyWrite, lastLog, lastCall,
                   explicit, formatAttr, store, clock, req>>

(***************************************************************************)
(* info, warn, debug, error.                                               *)
(***************************************************************************)
Call(by, msg) ==
    [by |-> by, msg |-> msg, dest |-> this.dest,
     bytes |-> stats'.bytes - stats.bytes]

WithLevel(type, msg) ==
    IF Truthy(this.showLevel) THEN Prefixed(type, msg) ELSE msg

ExplicitCall(type, msg) ==
    /\ explicit.calls < MaxCalls
    /\ IF ~Truthy(this.explicitLogging)
       THEN /\ explicit' = [explicit EXCEPT !.calls = @ + 1]
            /\ UNCHANGED <<lastLog, stats, appends>>
            /\ lastCall' = Call(type, msg)
       ELSE /\ log(WithLevel(type, msg))
            /\ lastCall' = Call(type, msg)
            /\ explicit' = [calls |-> explicit.calls + 1,
                            writes |-> explicit.writes
                                         + (stats'.writes - stats.writes)]
    /\ UNCHANGED <<options, this, chalkLevel, createPc, emptyWrite, fs,
                   formatAttr, store, clock, req>>

info(msg) == ExplicitCall("info", msg)

warn(msg) == ExplicitCall("warn", msg)

debug(msg) == ExplicitCall("debug", msg)

error(msg) == ExplicitCall("error", msg)

(***************************************************************************)
(* use.                                                                    *)
(***************************************************************************)
\* use(attrs) with an array: _use(attr) for each, which pushes it.
use(attrs) ==
    /\ Len(this.requestedAttrs) + Len(attrs) <= MaxAttrs
    /\ this' = [this EXCEPT !.requestedAttrs = @ \o attrs]
    /\ UNCHANGED <<options, chalkLevel, createPc, emptyWrite, fs, appends,
                   lastLog, lastCall,
                   stats, explicit, formatAttr, store, clock, req>>

\* use(attr) with a single attribute.
useOne(attr) == use(<<attr>>)

(***************************************************************************)
(* format and the hooks it installs.  Elysia calls onRequest when a        *)
(* request arrives, then either onAfterResponse once its response has      *)
(* completed or onError when its handling threw.  A callback of formatAttr *)
(* returns any string; msg is the string it returns in this call.          *)
(***************************************************************************)
format(withOnRequest) ==
    /\ ~formatAttr.installed
    /\ formatAttr' = [installed |-> TRUE, onRequest |-> withOnRequest]
    /\ store' = [logestic_timeStart |-> BigInt(0)]
    /\ UNCHANGED <<options, this, chalkLevel, createPc, emptyWrite, fs,
                   appends, lastLog, lastCall,
                   stats, explicit, clock, req>>

HookRecord(msg) ==
    [calls |-> 1,
     ret |-> msg,
     destSet |-> this.dest # NoDest,
     writes |-> stats'.writes - stats.writes]

\* Requests are numbered in the order in which they arrive.
onRequest(r, ctx, msg) ==
    /\ formatAttr.installed
    /\ req[r].phase = "new"
    /\ \A q \in Requests : q < r => req[q].phase # "new"
    /\ store' = [store EXCEPT !.logestic_timeStart = BigInt(clock)]
    /\ IF formatAttr.onRequest
       THEN log(WithLevel("http", msg)) /\ lastCall' = Call("onRequest", msg)
       ELSE UNCHANGED <<lastLog, lastCall, stats, appends>>
    /\ req' = [req EXCEPT ![r] =
                 [@ EXCEPT !.phase = "handling", !.ctx = ctx, !.start = clock]]
    /\ clock' = clock + TickNs
    /\ UNCHANGED <<options, this, chalkLevel, createPc, emptyWrite, fs,
                   explicit, formatAttr>>

\* An onAfterResponse hook that forgets the level label.
onAfterResponseNoLabel(r, msg) ==
    /\ formatAttr.installed
    /\ req[r].phase = "handling"
    /\ IF ~Truthy(this.httpLogging)
       THEN /\ req' = [req EXCEPT ![r].phase = "done"]
            /\ UNCHANGED <<lastLog, lastCall, stats, appends>>
       ELSE /\ log(msg)
            /\ lastCall' = Call("onSuccess", msg)
            /\ req' = [req EXCEPT ![r] =
                         [@ EXCEPT
                            !.phase = "done",
                            !.extractedAt = clock,
                            !.requested = this.requestedAttrs,
                            !.attrs = buildAttrs(req[r].ctx,
                                                 this.requestedAttrs,
                                                 store.logestic_timeStart),
                            !.onSuccess = HookRecord(msg)]]
    /\ clock' = clock + TickNs
    /\ UNCHANGED <<options, this, chalkLevel, createPc, emptyWrite, fs,
                   explicit, formatAttr, store>>

onAfterResponse(r, msg) ==
    /\ formatAttr.installed
    /\ req[r].phase = "handling"
    /\ IF ~Truthy(this.httpLogging)
       THEN /\ req' = [req EXCEPT ![r].phase = "done"]
            /\ UNCHANGED <<lastLog, lastCall, stats, appends>>
       ELSE /\ log(WithLevel("http", msg))
            /\ lastCall' = Call("onSuccess", msg)
            /\ req' = [req EXCEPT ![r] =
                         [@ EXCEPT
                            !.phase = "done",
                            !.extractedAt = clock,
                            !.requested = this.requestedAttrs,
                            !.attrs = buildAttrs(req[r].ctx,
                                                 this.requestedAttrs,
                                                 store.logestic_timeStart),
                            !.onSuccess = HookRecord(msg)]]
    /\ clock' = clock + TickNs
    /\ UNCHANGED <<options, this, chalkLevel, createPc, emptyWrite, fs,
                   explicit, formatAttr, store>>

\* An onError hook whose log call sits inside `if (this.showLevel)`.
onErrorLabelledOnly(r, msg) ==
    /\ formatAttr.installed
    /\ req[r].phase = "handling"
    /\ IF Truthy(this.showLevel)
       THEN log(Prefixed("error", msg))
       ELSE UNCHANGED <<lastLog, stats, appends>>
    /\ lastCall' = Call("onFailure", msg)
    /\ req' = [req EXCEPT ![r] =
                 [@ EXCEPT !.phase = "failed", !.onFailure = HookRecord(msg)]]
    /\ clock' = clock + TickNs
    /\ UNCHANGED <<options, this, chalkLevel, createPc, emptyWrite, fs,
                   explicit, formatAttr, store>>

onError(r, msg) ==
    /\ formatAttr.installed
    /\ req[r].phase = "handling"
    /\ log(WithLevel("error", msg))
    /\ lastCall' = Call("onFailure", msg)
    /\ req' = [req EXCEPT ![r] =
                 [@ EXCEPT !.phase = "failed", !.onFailure = HookRecord(msg)]]
    /\ clock' = clock + TickNs
    /\ UNCHANGED <<options, this, chalkLevel, createPc, emptyWrite, fs,
                   explicit, formatAttr, store>>

(***************************************************************************)
(* Inputs.                                                                 *)
(***************************************************************************)
Empty == <<>>
Blank == <<" ">>
Plain == <<"o", "k">>
Coloured == <<ESC, "[", "3", "1", "m", "o", "k", ESC, "[", "3", "9", "m">>
Msgs == {Empty, Blank, Plain, Coloured}

BoolOptions == {Undefined, Bool(TRUE), Bool(FALSE)}

Get == Str(<<"G", "E", "T">>)
Health == Str(<<"/", "h", "e", "a", "l", "t", "h">>)
HealthCtx == Context(Get, NoHeaders, Health, Num(200))

(***************************************************************************)
(* The request lifecycle: format() is mounted and requests arrive, are     *)
(* handled concurrently and complete or fail, on a stream or on a file.    *)
(* The log file exists already, so createFileIfNotExists writes nothing;   *)
(* the completion of the appends, which no hook reads, is part of SpecLog. *)
(***************************************************************************)
HttpOptions ==
    [dest : {NoDest, LogFile},
     showLevel : {Undefined, Bool(TRUE)},
     logLevelColour : {NoColours},
     httpLogging : BoolOptions,
     explicitLogging : {Undefined}]

HookMsgs == {Empty, Plain}

Init == InitWith(HttpOptions, {3}, {TRUE})

Next ==
    \/ createFileIfNotExists(FALSE)
    \/ ThenSetDest
    \/ (~formatAttr.installed /\ Len(this.requestedAttrs) = 0
          /\ useOne("duration"))
    \/ \E b \in BOOLEAN : format(b)
    \/ \E r \in Requests, msg \in HookMsgs : onRequest(r, HealthCtx, msg)
    \/ \E r \in Requests, msg \in HookMsgs : onAfterResponse(r, msg)
    \/ \E r \in Requests, msg \in HookMsgs : onError(r, msg)

Spec == Init /\ [][Next]_vars

(***************************************************************************)
(* Explicit logging: info, warn, debug and error called at any time after  *)
(* construction, while the file destination is being set up.               *)
(***************************************************************************)
LogOptions ==
    [dest : {BunStderr, LogFile},
     showLevel : {Bool(FALSE), Bool(TRUE)},
     logLevelColour : {NoColours},
     httpLogging : {Undefined},
     explicitLogging : BoolOptions]

InitLog == InitWith(LogOptions, {3}, BOOLEAN)

NextLog ==
    \/ \E done \in BOOLEAN : createFileIfNotExists(done)
    \/ BunWriteEmpty
    \/ ThenSetDest
    \/ \E text \in BagToSet(appends) : AppendFileDone(text)
    \/ \E msg \in Msgs : info(msg)
    \/ \E msg \in Msgs : warn(msg)
    \/ \E msg \in Msgs : debug(msg)
    \/ \E msg \in Msgs : error(msg)

SpecLog == InitLog /\ [][NextLog]_vars

(***************************************************************************)
(* Every way a message reaches log: the four explicit calls and the three  *)
(* callbacks of format, with empty, blank, plain and coloured messages.    *)
(* The bytes counted are those handed to Bun.write and fs.appendFile.      *)
(***************************************************************************)
MsgOptions ==
    [dest : {BunStderr, LogFile},
     showLevel : {Bool(FALSE), Bool(TRUE)},
     logLevelColour : {NoColours},
     httpLogging : {Undefined},
     explicitLogging : {Undefined}]

InitMsg == InitWith(MsgOptions, {3}, {TRUE})

NextMsg ==
    \/ createFileIfNotExists(FALSE)
    \/ ThenSetDest
    \/ \E msg \in Msgs : info(msg)
    \/ \E msg \in Msgs : warn(msg)
    \/ \E msg \in Msgs : debug(msg)
    \/ \E msg \in Msgs : error(msg)
    \/ format(TRUE)
    \/ \E msg \in Msgs : onRequest(1, HealthCtx, msg)
    \/ \E msg \in Msgs : onAfterResponse(1, msg)
    \/ \E msg \in Msgs : onError(1, msg)

SpecMsg == InitMsg /\ [][NextMsg]_vars

(***************************************************************************)
(* Level labels: every chalk level, with and without a hex override, on a  *)
(* stream and on a file.                                                   *)
(***************************************************************************)
ColourOptions ==
    [dest : {BunStderr, LogFile},
     showLevel : {Bool(TRUE)},
     logLevelColour : {NoColours, RedColours},
     httpLogging : {Undefined},
     explicitLogging : {Undefined}]

InitColour == InitWith(ColourOptions, 0..3, {TRUE})

NextColour ==
    \/ createFileIfNotExists(FALSE)
    \/ ThenSetDest
    \/ \E text \in BagToSet(appends) : AppendFileDone(text)
    \/ \E msg \in {Plain, Coloured} : info(msg)
    \/ \E msg \in {Plain, Coloured} : warn(msg)
    \/ \E msg \in {Plain, Coloured} : debug(msg)
    \/ \E msg \in {Plain, Coloured} : error(msg)

SpecColour == InitColour /\ [][NextColour]_vars

(***************************************************************************)
(* Attribute extraction: any list of requested attributes, built up by     *)
(* use, and a request in any of the contexts below.                        *)
(***************************************************************************)
Ok == Str(<<"O", "K">>)
FullHeaders ==
    [h \in HeaderNames |->
       IF h = "content-length" THEN Str(<<"4", "2">>) ELSE Str(<<"x">>)]
BadLength == [NoHeaders EXCEPT !["content-length"] = Str(<<"4", "x">>)]

Contexts ==
    {Context(Get, NoHeaders, Health, Undefined),
     HealthCtx,
     Context(Get, FullHeaders, Health, Ok),
     Context(Get, BadLength, Health, Num(404))}

DefaultOptions ==
    [dest : {NoDest},
     showLevel : {Undefined},
     logLevelColour : {NoColours},
     httpLogging : {Undefined},
     explicitLogging : {Undefined}]

InitAttrs == InitWith(DefaultOptions, {3}, {FALSE})

NextAttrs ==
    \/ \E a \in Attribute : useOne(a)
    \/ \E a, b \in Attribute : use(<<a, b>>)
    \/ format(FALSE)
    \/ \E ctx \in Contexts : onRequest(1, ctx, Plain)
    \/ onAfterResponse(1, Plain)

SpecAttrs == InitAttrs /\ [][NextAttrs]_vars

(***************************************************************************)
(* Properties.                                                             *)
(***************************************************************************)
Range(seq) == {seq[i] : i \in DOMAIN seq}

\* Every character of m is white space (so also: m is empty).
IsBlank(m) == \A i \in 1..Len(m) : m[i] \in WhiteSpace

\* s holds an SGR escape sequence: ESC, "[", parameters (digits and ";"), "m".
HasAnsi(s) ==
    \E i \in 1..Len(s) :
        /\ i + 2 <= Len(s)
        /\ s[i] = ESC
        /\ s[i + 1] = "["
        /\ \E j \in (i + 2)..Len(s) :
               /\ s[j] = "m"
               /\ \A k \in (i + 2)..(j - 1) : s[k] \in Digits \cup {";"}

\* A line is written for the hook h exactly when the message handed to log is
\* not empty (the callback returned text, or the level label is shown) and
\* this.dest was set when the hook ran.
LinesOf(h) ==
    IF (Truthy(this.showLevel) \/ h.ret # <<>>) /\ h.destSet THEN 1 ELSE 0

\* C1: constructed with httpLogging = false, no success line is written and
\* onSuccess is never called, for any request.
C1_NoSuccessLogWhenDisabled ==
    options.httpLogging = Bool(FALSE) =>
        \A r \in Requests :
            req[r].onSuccess.calls = 0 /\ req[r].onSuccess.writes = 0

\* C2: constructed with explicitLogging = false, info, warn, debug and error
\* write nothing to the destination.
C2_ExplicitCallsAreNoOps ==
    options.explicitLogging = Bool(FALSE) =>
        /\ explicit.writes = 0
        /\ stats.bytes = 0
        /\ appends = EmptyBag
        /\ fs.content = <<>>

C4_KeysAreTheRequestedNames ==
    \A r \in Requests :
        req[r].phase = "done" =>
            DOMAIN req[r].attrs =
                Range(req[r].requested)
                    \ (IF req[r].ctx.set.status = Undefined
                       THEN {"status"} ELSE {})

\* An attribute set was built from a list that repeats a name and asks for
\* status, for a response whose status is unset.
C4_Witness ==
    \E r \in Requests :
        /\ req[r].phase = "done"
        /\ "status" \in Range(req[r].requested)
        /\ Len(req[r].requested) > Cardinality(Range(req[r].requested))
        /\ req[r].ctx.set.status = Undefined
        /\ req[r].attrs # NoAttrs

\* C5, as stated: an empty or blank message passed to any logging call
\* produces zero bytes written, in every configuration.
C5_BlankWritesNothing ==
    (lastCall.by # "none" /\ IsBlank(lastCall.msg)) => lastCall.bytes = 0

\* C5, amended: an empty or blank message produces zero bytes written exactly
\* when the destination is not set yet, or the level label is not shown and
\* the message is the empty string or the destination is a file; with the
\* level label shown the label is written, and a blank message without label
\* is written to a stream as it is.
C5_WhenBlankWritesNothing ==
    (lastCall.by # "none" /\ IsBlank(lastCall.msg)) =>
        /\ lastCall.bytes = 0 <=>
               \/ lastCall.dest = NoDest
               \/ /\ ~Truthy(this.showLevel)
                  /\ lastCall.msg = <<>> \/ lastCall.dest.kind = "file"
        /\ (lastCall.msg = <<>> /\ ~Truthy(this.showLevel)) =>
               lastLog.effect = "ignored"

\* A format callback returned the empty string, no label is shown, the
\* destination is set, and nothing was written.
C5_Witness ==
    /\ lastCall.by = "onSuccess"
    /\ lastCall.msg = <<>>
    /\ ~Truthy(this.showLevel)
    /\ lastCall.dest # NoDest
    /\ lastCall.bytes = 0
    /\ lastLog.effect = "ignored"

\* C6: no line appended to a file holds an ANSI escape sequence, also with a
\* hex override of the level colour, and a line written to a stream is the
\* message unchanged.
C6_FileLinesHaveNoAnsi ==
    /\ \A i \in 1..Len(fs.content) : ~HasAnsi(fs.content[i])
    /\ lastLog.effect = "append" => ~HasAnsi(lastLog.text)
    /\ lastLog.effect = "stream" => lastLog.text = lastLog.arg \o <<NL>>

C8_AbsentHeaderIsNaN ==
    \A r \in Requests :
        (/\ req[r].phase = "done"
         /\ "contentLength" \in Range(req[r].requested)
         /\ HeadersGet(req[r].ctx, "content-length") = Null) =>
            req[r].attrs["contentLength"] = NaN

\* C8, amended: with contentLength requested the attribute set is built and
\* holds contentLength; without a content-length header its value is 0, and
\* it is not-a-number only for a header that is there and is not a number.
C8_AbsentHeaderIsZero ==
    \A r \in Requests :
        (req[r].phase = "done" /\ "contentLength" \in Range(req[r].requested))
            => /\ "contentLength" \in DOMAIN req[r].attrs
               /\ HeadersGet(req[r].ctx, "content-length") = Null =>
                      req[r].attrs["contentLength"] = Num(0)
               /\ req[r].attrs["contentLength"] = NaN =>
                      HeadersGet(req[r].ctx, "content-length") # Null

\* contentLength was requested and extracted for a request without the header.
C8_Witness ==
    \E r \in Requests :
        /\ req[r].phase = "done"
        /\ "contentLength" \in Range(req[r].requested)
        /\ HeadersGet(req[r].ctx, "content-length") = Null
        /\ "contentLength" \in DOMAIN req[r].attrs

\* C9: the duration of a request is the time in whole microseconds between
\* its own onRequest and the extraction, also with other requests in flight.
C9_DurationIsOwnElapsedTime ==
    \A r \in Requests :
        (req[r].phase = "done" /\ "duration" \in DOMAIN req[r].attrs) =>
            req[r].attrs["duration"] =
                BigInt((req[r].extractedAt - req[r].start) \div 1000)

\* C10: with a file destination every non-empty log call issues exactly one
\* append, and the file holds every chunk that was appended.
C10_EveryLogCallAppendsOnce ==
    options.dest.kind = "file" =>
        /\ stats.writes = stats.logCalls
        /\ Len(fs.content) = stats.appended

====
